---------------------------- MODULE Spec2Model ----------------------------
(***************************************************************************)
(* Model of the Linux side of the custom_tooltip_flutter plugin            *)
(* (src/linux/custom_tooltip_flutter_plugin.cc): plugin registration on    *)
(* the method channel, the method-call callback, the dispatch on the       *)
(* method name and the platform-version query.                             *)
(*                                                                         *)
(* C strings are sequences of character codes (ASCII), without the         *)
(* terminating NUL; GObject reference counts are integers; everything      *)
(* runs on the one GTK main thread, whose position is pc.                  *)
(***************************************************************************)
EXTENDS Integers, Sequences, FiniteSets, TLC

VARIABLES
  uts,        \* the identification record the OS reports now (struct utsname)
  refs,       \* GObject reference count of every plugin object
  disposed,   \* how many times custom_tooltip_flutter_plugin_dispose ran, per object
  handlers,   \* the messenger's handler table: channel name -> registration
  nplugins,   \* plugin objects created so far (their ids are 1..nplugins)
  nregistered,\* registrations that returned so far
  closed,     \* the messenger was shut down
  pc,         \* position of the main thread
  cur,        \* locals of the function the main thread is in
  sent,       \* history: every message the transport delivered
  responses,  \* per call object, the responses sent on it
  log         \* history: every dispatch that returned

vars == <<uts, refs, disposed, handlers, nplugins, nregistered, closed,
          pc, cur, sent, responses, log>>

---------------------------------------------------------------------------
(* Bounds of the model *)

\* messages the transport delivers in one run
MaxCalls == 2

\* registrations (plugin objects created) in one run
MaxPlugins == 2

\* method calls delivered in one run of a registered plugin
MaxDispatches == 3

---------------------------------------------------------------------------
(* Strings *)

\* "getPlatformVersion", the literal the dispatcher compares with
GetPlatformVersionName ==
  <<103,101,116,80,108,97,116,102,111,114,109,86,101,114,115,105,111,110>>

\* method names the transport may send
Names ==
  { GetPlatformVersionName,
    <<>>,                                                  \* ""
    <<71>> \o Tail(GetPlatformVersionName),                \* "GetPlatformVersion"
    GetPlatformVersionName \o <<88>>,                      \* "getPlatformVersionX"
    <<88>> \o GetPlatformVersionName }                     \* "XgetPlatformVersion"

\* argument values of a call: null or some opaque value
Args == {"null", "opaque"}

\* byte i (1-based) of a NUL-terminated string
CharAt(s, i) == IF i <= Len(s) THEN s[i] ELSE 0

RECURSIVE strcmpFrom(_, _, _)
strcmpFrom(a, b, i) ==
  LET ca == CharAt(a, i)
      cb == CharAt(b, i)
  IN  IF ca # cb THEN ca - cb
      ELSE IF ca = 0 THEN 0
      ELSE strcmpFrom(a, b, i + 1)

\* strncmp(a, b, strlen(b)) == 0 iff b is a prefix of a
strcmp_prefix(a, b) ==
  strcmpFrom(SubSeq(a, 1, IF Len(a) < Len(b) THEN Len(a) ELSE Len(b)), b, 1)

\* strcmp of <cstring>: the difference of the first bytes that differ
strcmp(a, b) == strcmpFrom(a, b, 1)


---------------------------------------------------------------------------
(* The operating system *)

\* struct utsname uname_data = {}: every field the empty string
ZeroUtsname == [sysname |-> <<>>, release |-> <<>>, version |-> <<>>]

\* records the OS may report: sysname "Linux", with release "5.1" and
\* version "#1", or release "6.0" and version "#2" (a running kernel never
\* reports an empty field)
UtsRecords ==
  { [sysname |-> <<76,105,110,117,120>>, release |-> <<53,46,49>>,
     version |-> <<35,49>>],
    [sysname |-> <<76,105,110,117,120>>, release |-> <<54,46,48>>,
     version |-> <<35,50>>] }

\* uname(&buf): on success (ok) fills buf with the OS record and returns 0;
\* on failure returns -1 and leaves buf as it was
uname(buf, ok) ==
  IF ok THEN [rc |-> 0, buf |-> uts] ELSE [rc |-> -1, buf |-> buf]

---------------------------------------------------------------------------
(* Method responses *)

\* g_autoptr(FlMethodResponse) response = nullptr
NoResponse == [kind |-> "null", value |-> <<>>]

fl_method_not_implemented_response_new ==
  [kind |-> "NotImplemented", value |-> <<>>]

fl_method_success_response_new(result) ==
  [kind |-> "Success", value |-> result]

\* the third kind of FlMethodResponse; the plugin never builds one
fl_method_error_response_new(code) ==
  [kind |-> "Error", value |-> code]

\* "Linux ", the literal part of the format string "Linux %s"
LinuxPrefix == <<76,105,110,117,120,32>>

\* g_strdup_printf("Linux %s", s)
g_strdup_printf_Linux(s) == LinuxPrefix \o s

\* the release field instead of the version field
utsname_release(uname_data) == uname_data.release

\* the field of the record that the format reads: uname_data.version
utsname_field(uname_data) == uname_data.version

\* struct utsname uname_data; without the initialiser: stack garbage
uname_data_uninitialised ==
  [sysname |-> <<63>>, release |-> <<63>>, version |-> <<63>>]

\* struct utsname uname_data = {};
uname_data_init == ZeroUtsname

\* the version string of the first getPlatformVersion answered, kept
get_platform_version_cached(ok) ==
  LET old == { i \in 1..Len(log) : log[i].response.kind = "Success" }
  IN  IF old # {}
      THEN log[CHOOSE i \in old : \A j \in old : i <= j].response
      ELSE fl_method_success_response_new(
             g_strdup_printf_Linux(utsname_field(uname(uname_data_init, ok).buf)))

\* the result of uname checked, and an error returned on failure
get_platform_version_checked(ok) ==
  LET r == uname(uname_data_init, ok)
  IN  IF r.rc # 0 THEN fl_method_error_response_new(<<>>)
      ELSE fl_method_success_response_new(
             g_strdup_printf_Linux(utsname_field(r.buf)))

\* get_platform_version(): the result of uname is not looked at
get_platform_version(ok) ==
  LET uname_data == uname(uname_data_init, ok).buf
      version    == g_strdup_printf_Linux(utsname_field(uname_data))
      result     == version                \* fl_value_new_string(version)
  IN  fl_method_success_response_new(result)

\* the arguments looked at: the method is served only to a call without any
method_is_getPlatformVersion_args(method_call) ==
  /\ method_call.args = "null"
  /\ strcmp(method_call.name, GetPlatformVersionName) = 0

\* the name compared up to the length of the literal only
method_is_getPlatformVersion_prefix(method_call) ==
  strcmp_prefix(method_call.name, GetPlatformVersionName) = 0

\* the test of custom_tooltip_flutter_plugin_handle_method_call:
\* strcmp(method, "getPlatformVersion") == 0
method_is_getPlatformVersion(method_call) ==
  LET method == method_call.name       \* fl_method_call_get_name(method_call)
  IN  strcmp(method, GetPlatformVersionName) = 0

\* the response is sent only when the method was recognised
fl_method_call_respond_known(resps, method_call, response) ==
  IF response.kind = "NotImplemented" THEN resps
  ELSE [resps EXCEPT ![method_call.id] = Append(@, response)]

\* fl_method_call_respond(method_call, response, nullptr): the response is
\* sent on the call object it is given
fl_method_call_respond(resps, method_call, response) ==
  [resps EXCEPT ![method_call.id] = Append(@, response)]

---------------------------------------------------------------------------
(* GObject reference counting and the messenger's handler table *)

PluginIds == 1..MaxPlugins
CallIds   == 1..(IF MaxCalls > MaxDispatches THEN MaxCalls ELSE MaxDispatches)

\* the channel name registered under a different name
RegisteredChannelName_other == "other_channel"

\* the channel name literal of fl_method_channel_new
RegisteredChannelName == "custom_tooltip_flutter"

\* channel names the transport delivers messages on
Channels == {"custom_tooltip_flutter", "other_channel"}

\* no handler registered on a channel
NoHandler == [handler |-> "none", user_data |-> 0, codec |-> "none"]

g_object_ref(r, p) == [r EXCEPT ![p] = @ + 1]

g_object_unref(r, p) == [r EXCEPT ![p] = @ - 1]

\* dispose runs for an object whose count drops to 0
DisposedAfter(d, before, after) ==
  [p \in DOMAIN d |-> IF before[p] >= 1 /\ after[p] = 0 THEN d[p] + 1 ELSE d[p]]

\* g_object_ref(plugin), the user_data argument of
\* fl_method_channel_set_method_call_handler
handler_user_data(r, plugin) == g_object_ref(r, plugin)

\* the creator's reference kept (no g_object_unref at the end)
register_release_missing(r, plugin) == r

\* g_object_unref(plugin) at the end of the registration
register_release(r, plugin) == g_object_unref(r, plugin)

\* the destroy notify (g_object_unref) of every registration in table h
DestroyNotify(r, h) ==
  [p \in DOMAIN r |->
     r[p] - Cardinality({c \in DOMAIN h : h[c] # NoHandler /\ h[c].user_data = p})]

---------------------------------------------------------------------------
(* State *)

NoCall == [id |-> 0, name |-> <<>>, args |-> "null"]
NoObs  == [queried |-> FALSE, ok |-> FALSE, os |-> ZeroUtsname]

\* locals of the main thread when it is in none of the plugin's functions
IdleFrame ==
  [plugin |-> 0, call |-> NoCall, user_data |-> 0, self |-> 0,
   self_refs |-> 0, response |-> NoResponse, obs |-> NoObs]

Init ==
  /\ uts \in UtsRecords
  /\ refs = [p \in PluginIds |-> 0]
  /\ disposed = [p \in PluginIds |-> 0]
  /\ handlers = [c \in Channels |-> NoHandler]
  /\ nplugins = 0
  /\ nregistered = 0
  /\ closed = FALSE
  /\ pc = "idle"
  /\ cur = IdleFrame
  /\ sent = <<>>
  /\ responses = [i \in CallIds |-> <<>>]
  /\ log = <<>>

---------------------------------------------------------------------------
(* custom_tooltip_flutter_plugin_register_with_registrar *)

\* g_object_new(custom_tooltip_flutter_plugin_get_type(), nullptr)
RegisterNew ==
  /\ pc = "idle"
  /\ ~closed
  /\ nplugins < MaxPlugins
  /\ nplugins' = nplugins + 1
  /\ refs' = [refs EXCEPT ![nplugins + 1] = 1]
  /\ cur' = [IdleFrame EXCEPT !.plugin = nplugins + 1]
  /\ pc' = "register_set_handler"
  /\ UNCHANGED <<uts, disposed, handlers, nregistered, closed, sent, responses, log>>

\* the codec, the channel and fl_method_channel_set_method_call_handler: the
\* messenger's registration on the channel name is replaced, and the
\* registration it replaces is destroyed (its destroy notify runs)
RegisterSetHandler ==
  /\ pc = "register_set_handler"
  /\ LET name     == RegisteredChannelName
         replaced == [c \in DOMAIN handlers |->
                        IF c = name THEN handlers[c] ELSE NoHandler]
         taken    == handler_user_data(refs, cur.plugin)
         after    == DestroyNotify(taken, replaced)
     IN  /\ handlers' = [handlers EXCEPT ![name] =
                           [handler |-> "method_call_cb",
                            user_data |-> cur.plugin,
                            codec |-> "FlStandardMethodCodec"]]
         /\ refs' = after
         /\ disposed' = DisposedAfter(disposed, taken, after)
  /\ pc' = "register_unref"
  /\ UNCHANGED <<uts, nplugins, nregistered, closed, cur, sent, responses, log>>

\* g_object_unref(plugin) and the return
RegisterUnref ==
  /\ pc = "register_unref"
  /\ LET after == register_release(refs, cur.plugin)
     IN  /\ refs' = after
         /\ disposed' = DisposedAfter(disposed, refs, after)
  /\ nregistered' = nregistered + 1
  /\ cur' = IdleFrame
  /\ pc' = "idle"
  /\ UNCHANGED <<uts, handlers, nplugins, closed, sent, responses, log>>

---------------------------------------------------------------------------
(* The transport and the operating system *)

\* the transport of a running engine delivers a method call on a channel
\* (at most max in a run): the registered handler, if the channel has one,
\* is invoked with its user_data
Deliver(ch, name, args, max) ==
  /\ pc = "idle"
  /\ ~closed
  /\ Len(sent) < max
  /\ LET id == Len(sent) + 1
         h  == handlers[ch]
     IN  /\ sent' = Append(sent, [id |-> id, channel |-> ch, name |-> name,
                                  args |-> args,
                                  dispatched |-> h # NoHandler,
                                  nregistered |-> nregistered])
         /\ IF h # NoHandler
            THEN /\ pc' = h.handler
                 /\ cur' = [IdleFrame EXCEPT
                              !.call = [id |-> id, name |-> name, args |-> args],
                              !.user_data = h.user_data]
            ELSE UNCHANGED <<pc, cur>>
  /\ UNCHANGED <<uts, refs, disposed, handlers, nplugins, nregistered, closed,
                 responses, log>>

\* the engine shuts the messenger down: every registration is destroyed
Shutdown ==
  /\ pc = "idle"
  /\ ~closed
  /\ closed' = TRUE
  /\ LET after == DestroyNotify(refs, handlers)
     IN  /\ refs' = after
         /\ disposed' = DisposedAfter(disposed, refs, after)
  /\ handlers' = [c \in DOMAIN handlers |-> NoHandler]
  /\ UNCHANGED <<uts, nplugins, nregistered, pc, cur, sent, responses, log>>

\* the identification the OS reports changes
OsChange ==
  /\ \E u \in UtsRecords \ {uts} : uts' = u
  /\ UNCHANGED <<refs, disposed, handlers, nplugins, nregistered, closed,
                 pc, cur, sent, responses, log>>

---------------------------------------------------------------------------
(* method_call_cb and custom_tooltip_flutter_plugin_handle_method_call *)

\* method_call_cb: the cast of user_data, then the call of the handler
MethodCallCb ==
  /\ pc = "method_call_cb"
  /\ cur' = [cur EXCEPT !.self = cur.user_data,
                        !.self_refs = refs[cur.user_data]]
  /\ pc' = "handle_method_call"
  /\ UNCHANGED <<uts, refs, disposed, handlers, nplugins, nregistered, closed,
                 sent, responses, log>>

\* the name is read and compared
HandleMethodCall ==
  /\ pc = "handle_method_call"
  /\ IF method_is_getPlatformVersion(cur.call)
     THEN /\ pc' = "get_platform_version"
          /\ cur' = cur
     ELSE /\ pc' = "respond"
          /\ cur' = [cur EXCEPT !.response = fl_method_not_implemented_response_new]
  /\ UNCHANGED <<uts, refs, disposed, handlers, nplugins, nregistered, closed,
                 sent, responses, log>>

\* get_platform_version, with either outcome of uname
GetPlatformVersion ==
  /\ pc = "get_platform_version"
  /\ \E ok \in BOOLEAN :
       cur' = [cur EXCEPT !.response = get_platform_version(ok),
                          !.obs = [queried |-> TRUE, ok |-> ok, os |-> uts]]
  /\ pc' = "respond"
  /\ UNCHANGED <<uts, refs, disposed, handlers, nplugins, nregistered, closed,
                 sent, responses, log>>

\* fl_method_call_respond(method_call, response, nullptr)
Respond ==
  /\ pc = "respond"
  /\ responses' = fl_method_call_respond(responses, cur.call, cur.response)
  /\ pc' = "return"
  /\ UNCHANGED <<uts, refs, disposed, handlers, nplugins, nregistered, closed,
                 cur, sent, log>>

\* the handler and method_call_cb return to the transport
Return ==
  /\ pc = "return"
  /\ log' = Append(log, [id |-> cur.call.id, name |-> cur.call.name,
                         args |-> cur.call.args, self |-> cur.self,
                         self_refs |-> cur.self_refs, obs |-> cur.obs,
                         response |-> cur.response,
                         answered |-> Len(responses[cur.call.id])])
  /\ cur' = IdleFrame
  /\ pc' = "idle"
  /\ UNCHANGED <<uts, refs, disposed, handlers, nplugins, nregistered, closed,
                 sent, responses>>

---------------------------------------------------------------------------

Next ==
  \/ RegisterNew
  \/ RegisterSetHandler
  \/ RegisterUnref
  \/ \E ch \in Channels, name \in Names, args \in Args : Deliver(ch, name, args, MaxCalls)
  \/ Shutdown
  \/ OsChange
  \/ MethodCallCb
  \/ HandleMethodCall
  \/ GetPlatformVersion
  \/ Respond
  \/ Return

Spec == Init /\ [][Next]_vars

---------------------------------------------------------------------------
(* A plugin that was registered once: the calls of its channel *)

\* the state in which the first registration returns
InitDispatch ==
  /\ uts \in UtsRecords
  /\ refs = [p \in PluginIds |-> IF p = 1 THEN 1 ELSE 0]
  /\ disposed = [p \in PluginIds |-> 0]
  /\ handlers = [c \in Channels |->
                   IF c = RegisteredChannelName
                   THEN [handler |-> "method_call_cb", user_data |-> 1,
                         codec |-> "FlStandardMethodCodec"]
                   ELSE NoHandler]
  /\ nplugins = 1
  /\ nregistered = 1
  /\ closed = FALSE
  /\ pc = "idle"
  /\ cur = IdleFrame
  /\ sent = <<>>
  /\ responses = [i \in CallIds |-> <<>>]
  /\ log = <<>>

NextDispatch ==
  \/ \E name \in Names, args \in Args :
       Deliver(RegisteredChannelName, name, args, MaxDispatches)
  \/ OsChange
  \/ MethodCallCb
  \/ HandleMethodCall
  \/ GetPlatformVersion
  \/ Respond
  \/ Return

SpecDispatch == InitDispatch /\ [][NextDispatch]_vars


---------------------------------------------------------------------------
(* Properties *)

\* the dispatches that returned
Returned == { log[i] : i \in 1..Len(log) }

\* the record get_platform_version formats after the query of entry e
RecordSeen(e) == IF e.obs.ok THEN e.obs.os ELSE ZeroUtsname

\* whether string s starts with string prefix
StartsWith(s, prefix) ==
  Len(s) >= Len(prefix) /\ SubSeq(s, 1, Len(prefix)) = prefix

\* the pc values inside method_call_cb and the functions it calls
HandlerPcs ==
  {"method_call_cb", "handle_method_call", "get_platform_version",
   "respond", "return"}

\* C1: every call named exactly "getPlatformVersion" is answered with a
\* Success response, never NotImplemented and never Error, whatever its
\* arguments and whatever the outcome of the OS query.
C1_GetPlatformVersionSucceeds ==
  /\ \A e \in Returned :
       e.name = GetPlatformVersionName =>
         /\ e.response.kind = "Success"
         /\ responses[e.id] # <<>>
         /\ \A k \in 1..Len(responses[e.id]) : responses[e.id][k].kind = "Success"
  /\ (pc = "return" /\ cur.call.name = GetPlatformVersionName) =>
       cur.response.kind = "Success"

\* a call with arguments whose OS query failed was answered with Success
C1_Witness ==
  \E e \in Returned :
    /\ e.name = GetPlatformVersionName
    /\ e.args = "opaque"
    /\ e.obs.queried /\ ~e.obs.ok
    /\ responses[e.id] = <<e.response>>
    /\ e.response.kind = "Success"

\* C2: every call whose name differs from "getPlatformVersion" is answered
\* with NotImplemented, and the OS query is not made for it.
C2_OtherNamesNotImplemented ==
  /\ \A e \in Returned :
       e.name # GetPlatformVersionName =>
         /\ e.response = fl_method_not_implemented_response_new
         /\ responses[e.id] = <<fl_method_not_implemented_response_new>>
         /\ ~e.obs.queried
  /\ (pc \in HandlerPcs /\ cur.call.name # GetPlatformVersionName) =>
       /\ pc # "get_platform_version"
       /\ ~cur.obs.queried

\* the name with one character appended and the name in another casing
\* were both answered with NotImplemented
C2_Witness ==
  /\ \E e \in Returned :
       /\ e.name = GetPlatformVersionName \o <<88>>
       /\ e.response.kind = "NotImplemented"
  /\ \E e \in Returned :
       /\ e.name = <<71>> \o Tail(GetPlatformVersionName)
       /\ e.response.kind = "NotImplemented"
  /\ \E e \in Returned :
       /\ e.name \in {<<>>, <<88>> \o GetPlatformVersionName}
       /\ e.response.kind = "NotImplemented"

\* C3: every call delivered to the handler gets exactly one response, sent
\* on its own call object, before the handler returns: no response while
\* the handler has not reached fl_method_call_respond, one from then on,
\* and none on a call object that was not dispatched.
C3_ExactlyOneResponse ==
  /\ \A e \in Returned :
       /\ e.answered = 1
       /\ responses[e.id] = <<e.response>>
  /\ \A i \in CallIds :
       (/\ \A e \in Returned : e.id # i
        /\ ~(pc \in HandlerPcs /\ cur.call.id = i)) => responses[i] = <<>>
  /\ pc \in HandlerPcs \ {"return"} => responses[cur.call.id] = <<>>
  /\ pc = "return" => responses[cur.call.id] = <<cur.response>>

\* three calls returned, answered one by one, a NotImplemented among them
C3_Witness ==
  /\ Len(log) = 3
  /\ \A i \in 1..3 : Len(responses[i]) = 1
  /\ log[1].response.kind = "Success"
  /\ log[2].response.kind = "NotImplemented"
  /\ log[3].response.kind = "Success"

\* C4 as stated: the Success value of "getPlatformVersion" is "Linux "
\* followed by the release field of the identification record.
C4_ValueIsRelease ==
  \A e \in Returned :
    e.name = GetPlatformVersionName =>
      e.response = fl_method_success_response_new(LinuxPrefix \o RecordSeen(e).release)

\* C4 (amended): the Success value of "getPlatformVersion" is "Linux "
\* followed by the version field of the identification record the query
\* left (the zero-initialised record when the query failed), and by no
\* other field of it.
C4_ValueIsVersion ==
  \A e \in Returned :
    e.name = GetPlatformVersionName =>
      /\ e.response = fl_method_success_response_new(LinuxPrefix \o RecordSeen(e).version)
      /\ e.obs.ok =>
           /\ e.response.value # LinuxPrefix \o RecordSeen(e).release
           /\ e.response.value # LinuxPrefix \o RecordSeen(e).sysname

\* a query that succeeded was answered with "Linux #2", the version field
C4_Witness ==
  \E e \in Returned :
    /\ e.name = GetPlatformVersionName
    /\ e.obs.ok
    /\ e.obs.os.release = <<54,46,48>>
    /\ e.response.value = LinuxPrefix \o <<35,50>>

\* C5: every Success value of a "getPlatformVersion" call starts with
\* "Linux " and has a non-empty remainder after it, whatever the result of
\* the OS query.
C5_NonEmptyRemainder ==
  \A e \in Returned :
    e.name = GetPlatformVersionName =>
      /\ e.response.kind = "Success"
      /\ StartsWith(e.response.value, LinuxPrefix)
      /\ Len(e.response.value) > Len(LinuxPrefix)

\* C6: a "getPlatformVersion" call whose OS query fails still gets exactly
\* one response, an Error or a Success carrying the string built from the
\* zero-initialised record; never NotImplemented, never none.
C6_QueryFailureAnswered ==
  /\ \A e \in Returned :
       (e.name = GetPlatformVersionName /\ e.obs.queried /\ ~e.obs.ok) =>
         /\ e.answered = 1
         /\ responses[e.id] = <<e.response>>
         /\ e.response.kind \in {"Success", "Error"}
         /\ e.response.kind = "Success" =>
              e.response.value = LinuxPrefix \o ZeroUtsname.version
  /\ \A e \in Returned : e.name = GetPlatformVersionName => e.obs.queried

\* a call whose query failed returned, answered once with the fallback
C6_Witness ==
  \E e \in Returned :
    /\ e.name = GetPlatformVersionName
    /\ e.obs.queried /\ ~e.obs.ok
    /\ responses[e.id] = <<fl_method_success_response_new(LinuxPrefix)>>

\* C7: the response depends only on the name and on what the OS reports
\* at the moment of the call: two calls with the same name and the same
\* result of the query get equal responses, whatever came between them,
\* and two answered queries that saw different version strings get
\* different values (nothing is cached).
C7_HistoryIndependent ==
  \A i \in 1..Len(log) : \A j \in 1..Len(log) :
    /\ (log[i].name = log[j].name /\ log[i].obs = log[j].obs) =>
         log[i].response = log[j].response
    /\ (/\ log[i].name = GetPlatformVersionName
        /\ log[j].name = GetPlatformVersionName
        /\ log[i].obs.ok /\ log[j].obs.ok
        /\ log[i].obs.os.version # log[j].obs.os.version) =>
         log[i].response.value # log[j].response.value

\* the same call before and after a failed query and a change of the OS
\* record, with the new version string in the last answer
C7_Witness ==
  /\ Len(log) = 3
  /\ \A i \in 1..3 : log[i].name = GetPlatformVersionName
  /\ log[1].obs.ok /\ ~log[2].obs.ok /\ log[3].obs.ok
  /\ log[1].obs.os.version = <<35,49>>
  /\ log[3].obs.os.version = <<35,50>>
  /\ log[1].response.value = LinuxPrefix \o <<35,49>>
  /\ log[3].response.value = LinuxPrefix \o <<35,50>>

\* the registration method_call_cb is wired with for plugin object p
Wired(p) ==
  [handler |-> "method_call_cb", user_data |-> p,
   codec |-> "FlStandardMethodCodec"]

\* C8: once a registration has returned, exactly one dispatcher is wired,
\* on the channel "custom_tooltip_flutter" with the standard method codec
\* and the plugin object that registration created; a delivered call is
\* dispatched if and only if it came on that channel after a registration
\* returned, and then to method_call_cb with that plugin object.
C8_RegistrationWiresChannel ==
  /\ (pc \notin {"register_set_handler", "register_unref"} /\ ~closed) =>
       \A c \in Channels :
         handlers[c] = IF c = "custom_tooltip_flutter" /\ nregistered > 0
                       THEN Wired(nregistered)
                       ELSE NoHandler
  /\ \A i \in 1..Len(sent) :
       sent[i].dispatched <=>
         (sent[i].channel = "custom_tooltip_flutter" /\ sent[i].nregistered > 0)
  /\ \A e \in Returned :
       /\ sent[e.id].dispatched
       /\ e.self = sent[e.id].nregistered
  /\ pc \in HandlerPcs =>
       /\ sent[cur.call.id].dispatched
       /\ cur.user_data = sent[cur.call.id].nregistered
  /\ Len(log) + (IF pc \in HandlerPcs THEN 1 ELSE 0)
       = Cardinality({i \in 1..Len(sent) : sent[i].dispatched})

\* a call on the channel before the registration was not dispatched, and a
\* call on it after the registration was handled with the plugin created
C8_Witness ==
  /\ Len(sent) = 2
  /\ sent[1].channel = "custom_tooltip_flutter" /\ ~sent[1].dispatched
  /\ sent[2].channel = "custom_tooltip_flutter" /\ sent[2].dispatched
  /\ Len(log) = 1
  /\ log[1].id = 2 /\ log[1].self = 1
  /\ responses[1] = <<>> /\ Len(responses[2]) = 1

\* C9: the response does not depend on the arguments: two calls with the
\* same name agree on whether the OS query is made, and, when the query
\* gave the same result, on the kind and the value of the response.
C9_ArgumentsIgnored ==
  \A e1 \in Returned : \A e2 \in Returned :
    (e1.name = e2.name /\ e1.args # e2.args) =>
      /\ e1.obs.queried = e2.obs.queried
      /\ e1.obs = e2.obs =>
           /\ e1.response.kind = e2.response.kind
           /\ e1.response.value = e2.response.value

\* a call without and a call with arguments, for "getPlatformVersion" and
\* for another name, answered alike
C9_Witness ==
  /\ \E e1 \in Returned : \E e2 \in Returned :
       /\ e1.name = GetPlatformVersionName /\ e2.name = GetPlatformVersionName
       /\ e1.args = "null" /\ e2.args = "opaque"
       /\ e1.obs = e2.obs /\ e1.obs.ok
       /\ e1.response = e2.response
  /\ \E e3 \in Returned : e3.name = <<>> /\ e3.args = "opaque"

\* the registrations that hold plugin object p as their user_data
Holders(p) ==
  {c \in Channels : handlers[c] # NoHandler /\ handlers[c].user_data = p}

\* C10: the plugin object is created with one reference, the handler
\* registration takes a second and the creator's is dropped before the
\* registration returns, so that one reference remains, owned by the
\* handler registration; the count is at least 1 whenever method_call_cb
\* runs, and the destroy notify of the registration drops it to 0 once:
\* the object is disposed exactly once, and never released below 0.
C10_RefCountBalanced ==
  /\ pc = "register_set_handler" => refs[cur.plugin] = 1
  /\ pc = "register_unref" =>
       refs[cur.plugin] = 2 /\ Holders(cur.plugin) = {RegisteredChannelName}
  /\ pc \notin {"register_set_handler", "register_unref"} =>
       \A p \in PluginIds : refs[p] = Cardinality(Holders(p))
  /\ \A p \in PluginIds :
       /\ refs[p] >= 0
       /\ Cardinality(Holders(p)) <= 1
       /\ disposed[p] = IF p <= nplugins /\ refs[p] = 0 THEN 1 ELSE 0
  /\ pc \in HandlerPcs => refs[cur.user_data] >= 1
  /\ \A e \in Returned : e.self_refs >= 1
  /\ closed => \A p \in PluginIds : refs[p] = 0

\* two registrations and a handled call, then the shutdown: both plugin
\* objects were disposed, each once
C10_Witness ==
  /\ closed
  /\ nplugins = 2
  /\ \A p \in 1..2 : refs[p] = 0 /\ disposed[p] = 1
  /\ \E e \in Returned : e.self = 2 /\ e.self_refs = 1

=============================================================================
